---- MODULE Spec2Model ----
(***************************************************************************)
(* Model of the two tries of project0: single_threaded_trie.rs and         *)
(* concurrent_trie.rs.                                                     *)
(*                                                                         *)
(* A trie is the function `top_level_nodes` from the paths of its nodes to *)
(* the nodes.  The node at path <<c1, .., cn>> is the entry cn of the      *)
(* child_nodes map of the node at path <<c1, .., c(n-1)>>; the nodes at    *)
(* paths of length 1 are the entries of the top-level map.  Removing an    *)
(* entry from a map drops the node and, by ownership, its whole subtree.   *)
(*                                                                         *)
(* A node is stored inline in the table of the HashMap that holds it, so   *)
(* its address is a slot of that table.  parent_node_ptr is a raw pointer  *)
(* to such a slot.  Inserting a new entry into a HashMap may reallocate    *)
(* its table, which moves every entry already in the map to a new slot;    *)
(* no code of the repository updates the pointers held by the children of  *)
(* the moved nodes, which dangle from then on.  Addresses are named by     *)
(* what they hold now: Address(p) is the slot the node at path p occupies, *)
(* Stale(p) a slot of a table the node at p has been moved out of.  A      *)
(* reallocation therefore turns the address Address(p) held by a child of  *)
(* a moved node p into Stale(p): the bits of the pointer stay, the slot    *)
(* they designate is no longer the node's.                                 *)
(* Dereferencing a dangling pointer is undefined behaviour; its outcomes   *)
(* are a nondeterministic choice (parameter `ub` of the removals).         *)
(***************************************************************************)
EXTENDS Integers, Sequences, FiniteSets, TLC

VARIABLES
    variant,          \* which of the two tries: "single" or "concurrent"
    top_level_nodes,  \* the trie
    last,             \* the last call and what it returned
    phase,            \* SpecPrune: "insert" until the first removal, then "remove"
    pending,          \* SpecPrune: the keys inserted and not yet removed with Ok
    twin,             \* SpecPair: the concurrent Trie given the same calls
    lock,             \* SpecConc: the RwLock around top_level_nodes
    threads,          \* SpecConc: where each thread is in its call
    committed,        \* SpecConc: the trie as the last whole insert/remove left it
    stable            \* SpecConc: the values stored and not touched by a remove since

vars == <<variant, top_level_nodes, last, phase, pending, twin,
          lock, threads, committed, stable>>

\* the variables of the threads and the lock
conc_vars == <<lock, threads, committed, stable>>

\* ------------------------------------------------------------------ bounds
\* the characters keys are made of
Chars == {"a", "b"}
\* an insert that would make the trie larger than this is not issued
MaxNodes == 4

Values == {1, 2}

\* the non-empty keys the operations are called with: a chain of three
\* (a, ab, abb), siblings below the top level (aa/ab, aba/abb) and on it (a/b)
Paths == {<<"a">>, <<"a", "a">>, <<"a", "b">>, <<"a", "b", "a">>,
          <<"a", "b", "b">>, <<"b">>}
\* every key an operation may be called with, the empty key included
Keys == Paths \cup {<<>>}

\* ------------------------------------------------------------- node graph
\* Option<T>
None == <<>>
Some(v) == <<v>>

\* ptr::null_mut()
NULL == <<>>

\* the three error strings, and Ok(())
Ok == "Ok"
EmptyKey == "Key can not be empty"
DuplicateKey == "Duplicate keys are not allowed"
NotFound == "No corresponding value"

\* the slot the node at `path` occupies now / occupied before a reallocation
Address(path) == <<path, "current">>
Stale(path) == <<path, "old">>

\* TrieNode::new(parent_node_ptr)
new(parent_node_ptr) == [value |-> None, parent_node_ptr |-> parent_node_ptr]

new_top_level_node == [value |-> None, parent_node_ptr |-> NULL]

is_end(node) == node.value # None

\* self as *mut _, for the node at `path`
as_ptr(path) == Address(path)

Parent(path) == SubSeq(path, 1, Len(path) - 1)

IsPrefix(p, q) == Len(p) <= Len(q) /\ SubSeq(q, 1, Len(p)) = p

\* the keys of the child_nodes map of the node at `path`
child_nodes(t, path) == {c \in Chars : Append(path, c) \in DOMAIN t}

\* the paths of the entries of the map that holds the node at `path`
Siblings(t, path) ==
    {q \in DOMAIN t : Len(q) = Len(path) /\ Parent(q) = Parent(path) /\ q # path}

\* HashMap::remove(&key) on the map holding `path`: the entry and all it owns go
DropEntry(t, path) ==
    [q \in {r \in DOMAIN t : ~IsPrefix(path, r)} |-> t[q]]

\* the table of a map is reallocated: the entries `moved` change slot, and the
\* addresses their children hold are those of the slots they left
Relocate(t, moved) ==
    [q \in DOMAIN t |->
        IF t[q].parent_node_ptr # NULL /\ t[q].parent_node_ptr[1] \in moved
        THEN [t[q] EXCEPT !.parent_node_ptr = Stale(t[q].parent_node_ptr[1])]
        ELSE t[q]]

\* Entry::Vacant(e) => e.insert(node): the map gains the entry `path`; when the
\* insertion grows the table (`grow`), the entries already in the map move
VacantInsert(t, path, node, grow) ==
    LET t1 == IF grow THEN Relocate(t, Siblings(t, path)) ELSE t
    IN  [q \in DOMAIN t1 \cup {path} |-> IF q = path THEN node ELSE t1[q]]

\* ------------------------------------------------------------------- get
\* the loop of Trie::get: `map` is the node whose child_nodes are searched next
\* (<<>> for the top-level map), `output` the value of the last node visited
\* get_loop without the early return: a missing child ends the walk with the
\* value seen last
RECURSIVE get_loop_no_return(_, _, _, _)
get_loop_no_return(t, map, output, key_iter) ==
    IF key_iter = <<>> THEN output
    ELSE LET node == Append(map, Head(key_iter))
         IN  IF node \in DOMAIN t
             THEN get_loop_no_return(t, node, t[node].value, Tail(key_iter))
             ELSE output

RECURSIVE get_loop(_, _, _, _)
get_loop(t, map, output, key_iter) ==
    IF key_iter = <<>> THEN output
    ELSE LET node == Append(map, Head(key_iter))
         IN  IF node \in DOMAIN t
             THEN get_loop(t, node, t[node].value, Tail(key_iter))
             ELSE None

get(t, key) == get_loop(t, <<>>, None, key)

\* ---------------------------------------------------------------- insert
\* TrieNode::insert without the is_end() test: the value is replaced
RECURSIVE TrieNode_insert_overwrite(_, _, _, _, _)
TrieNode_insert_overwrite(t, current_trie, key_iter, value, grow) ==
    IF key_iter = <<>>
    THEN [t |-> [t EXCEPT ![current_trie].value = Some(value)], res |-> Ok]
    ELSE LET key == Head(key_iter)
             child == Append(current_trie, key)
             node_pointer == as_ptr(current_trie)
             t1 == IF child \notin DOMAIN t
                   THEN VacantInsert(t, child, new(node_pointer), grow)
                   ELSE t
         IN  TrieNode_insert_overwrite(t1, child, Tail(key_iter), value, grow)

RECURSIVE TrieNode_insert(_, _, _, _, _)
TrieNode_insert(t, current_trie, key_iter, value, grow) ==
    IF key_iter = <<>>
    THEN IF is_end(t[current_trie])
         THEN [t |-> t, res |-> DuplicateKey]
         ELSE [t |-> [t EXCEPT ![current_trie].value = Some(value)], res |-> Ok]
    ELSE LET key == Head(key_iter)
             child == Append(current_trie, key)
             node_pointer == as_ptr(current_trie)
             t1 == IF child \notin DOMAIN t
                   THEN VacantInsert(t, child, new(node_pointer), grow)
                   ELSE t
         IN  TrieNode_insert(t1, child, Tail(key_iter), value, grow)

\* Trie::insert without the key.is_empty() test: the empty key is accepted
insert_accept_empty(t, key, value, grow) ==
    IF key = <<>> THEN [t |-> t, res |-> Ok]
    ELSE LET first == <<Head(key)>>
             t1 == IF first \notin DOMAIN t
                   THEN VacantInsert(t, first, new_top_level_node, grow)
                   ELSE t
         IN  TrieNode_insert(t1, first, Tail(key), value, grow)

insert(t, key, value, grow) ==
    IF key = <<>> THEN [t |-> t, res |-> EmptyKey]
    ELSE LET first_key == Head(key)
             first == <<first_key>>
             t1 == IF first \notin DOMAIN t
                   THEN VacantInsert(t, first, new_top_level_node, grow)
                   ELSE t
         IN  TrieNode_insert(t1, first, Tail(key), value, grow)

\* ---------------------------------------------------------------- remove
\* does the pointer designate the slot the node of its path occupies now
IsLive(t, ptr) == ptr # NULL /\ ptr[1] \in DOMAIN t /\ ptr = Address(ptr[1])

\* the parent_node_ptr of the node at `path` dangles
IsDangling(t, path) ==
    t[path].parent_node_ptr # NULL /\ ~IsLive(t, t[path].parent_node_ptr)

\* The outcomes of dereferencing a dangling parent_node_ptr.  stale_keep: the
\* depths of the moved nodes whose old slot reads as `child_nodes.len() > 1 ||
\* is_end()`; the old slot still holds the parent_node_ptr the node was built
\* with, a field no code changes.  applied: whether child_nodes.remove() called
\* through the old slot takes the entry out of the child table, which the old
\* slot and the moved node share, or is lost.
UBOutcomes == [stale_keep : SUBSET {Len(q) - 1 : q \in {r \in Paths : Len(r) > 1}},
               applied : BOOLEAN]
NoUB == [stale_keep |-> {}, applied |-> TRUE]

\* lines 99-110: for key in key_iter { .. }, from the leaf's parent upwards
RECURSIVE walk_up(_, _, _, _)
walk_up(t, parent_node_ptr_and_key, key_iter, ub) ==
    IF key_iter = <<>> THEN parent_node_ptr_and_key
    ELSE LET ptr == parent_node_ptr_and_key[1]
             key == Head(key_iter)
             parent_node == t[ptr[1]]
             stop == IF IsLive(t, ptr)
                     THEN Cardinality(child_nodes(t, ptr[1])) > 1 \/ is_end(parent_node)
                     ELSE Len(ptr[1]) \in ub.stale_keep
         IN  IF stop THEN parent_node_ptr_and_key
             ELSE walk_up(t, <<parent_node.parent_node_ptr, key>>, Tail(key_iter), ub)

\* the pointers `&*(parent_node_ptr_and_key.0)` of line 102 dereferences, in
\* the order of the iterations of the loop of walk_up
RECURSIVE walk_derefs(_, _, _, _)
walk_derefs(t, parent_node_ptr_and_key, key_iter, ub) ==
    IF key_iter = <<>> THEN <<>>
    ELSE LET ptr == parent_node_ptr_and_key[1]
             key == Head(key_iter)
             parent_node == t[ptr[1]]
             stop == IF IsLive(t, ptr)
                     THEN Cardinality(child_nodes(t, ptr[1])) > 1 \/ is_end(parent_node)
                     ELSE Len(ptr[1]) \in ub.stale_keep
         IN  IF stop THEN <<ptr>>
             ELSE <<ptr>> \o walk_derefs(t, <<parent_node.parent_node_ptr, key>>,
                                         Tail(key_iter), ub)

\* the final unsafe block of both removals: the entry `key` goes from the
\* top-level map, or from the child_nodes of the node the pointer designates
unlink(t, parent_node_ptr_and_key, ub) ==
    LET ptr == parent_node_ptr_and_key[1]
        key == parent_node_ptr_and_key[2]
    IN  IF ptr = NULL THEN DropEntry(t, <<key>>)
        ELSE IF IsLive(t, ptr) \/ ub.applied THEN DropEntry(t, Append(ptr[1], key))
        ELSE t

Reverse(s) == [i \in 1..Len(s) |-> s[Len(s) + 1 - i]]

\* Trie::remove without the is_end() test of line 83
remove_no_is_end(t, key, ub) ==
    IF key = <<>> THEN [t |-> t, res |-> EmptyKey]
    ELSE IF \E i \in 1..Len(key) : SubSeq(key, 1, i) \notin DOMAIN t
    THEN [t |-> t, res |-> NotFound]
    ELSE IF child_nodes(t, key) # {}
    THEN [t |-> [t EXCEPT ![key].value = None], res |-> Ok]
    ELSE LET key_iter == Reverse(key)
             start == <<t[key].parent_node_ptr, Head(key_iter)>>
             found == walk_up(t, start, Tail(key_iter), ub)
         IN  [t |-> unlink(t, found, ub), res |-> Ok]

\* Trie::remove without the child_nodes.is_empty() test of line 87: a terminal
\* node that has children is unlinked like a leaf
remove_no_children_test(t, key, ub) ==
    IF key = <<>> THEN [t |-> t, res |-> EmptyKey]
    ELSE IF \E i \in 1..Len(key) : SubSeq(key, 1, i) \notin DOMAIN t
    THEN [t |-> t, res |-> NotFound]
    ELSE IF ~is_end(t[key]) THEN [t |-> t, res |-> NotFound]
    ELSE LET key_iter == Reverse(key)
             start == <<t[key].parent_node_ptr, Head(key_iter)>>
             found == walk_up(t, start, Tail(key_iter), ub)
         IN  [t |-> unlink(t, found, ub), res |-> Ok]

\* single_threaded_trie.rs, Trie::remove
remove(t, key, ub) ==
    IF key = <<>> THEN [t |-> t, res |-> EmptyKey]
    ELSE IF \E i \in 1..Len(key) : SubSeq(key, 1, i) \notin DOMAIN t
    THEN [t |-> t, res |-> NotFound]
    ELSE LET current_node == t[key]
         IN  IF ~is_end(current_node) THEN [t |-> t, res |-> NotFound]
             ELSE IF child_nodes(t, key) # {}
             THEN [t |-> [t EXCEPT ![key].value = None], res |-> Ok]
             ELSE LET key_iter == Reverse(key)
                      start == <<current_node.parent_node_ptr, Head(key_iter)>>
                      found == walk_up(t, start, Tail(key_iter), ub)
                  IN  [t |-> unlink(t, found, ub), res |-> Ok]

\* concurrent_trie.rs lines 89-103: the downward walk with the tracked prune
\* point; parent_node_ptr_and_key is an Option, None or Some(<<ptr, key>>)
RECURSIVE walk_down(_, _, _, _)
walk_down(t, current_node, key_iter, parent_node_ptr_and_key) ==
    IF key_iter = <<>>
    THEN [found |-> TRUE, node |-> current_node, ptr |-> parent_node_ptr_and_key]
    ELSE LET key == Head(key_iter)
             node == Append(current_node, key)
         IN  IF node \notin DOMAIN t
             THEN [found |-> FALSE, node |-> current_node, ptr |-> parent_node_ptr_and_key]
             ELSE LET p == IF \/ is_end(t[node]) /\ child_nodes(t, node) # {}
                              \/ Cardinality(child_nodes(t, node)) > 1
                           THEN None
                           ELSE IF parent_node_ptr_and_key = None
                           THEN Some(<<t[node].parent_node_ptr, key>>)
                           ELSE parent_node_ptr_and_key
                  IN  walk_down(t, node, Tail(key_iter), p)

\* concurrent_trie.rs, Trie::remove
remove_concurrent(t, key, ub) ==
    IF key = <<>> THEN [t |-> t, res |-> EmptyKey]
    ELSE LET first_key == Head(key)
         IN  IF <<first_key>> \notin DOMAIN t THEN [t |-> t, res |-> NotFound]
             ELSE LET w == walk_down(t, <<first_key>>, Tail(key),
                                     Some(<<t[<<first_key>>].parent_node_ptr, first_key>>))
                  IN  IF ~w.found THEN [t |-> t, res |-> NotFound]
                      ELSE IF ~is_end(t[w.node]) THEN [t |-> t, res |-> NotFound]
                      ELSE IF child_nodes(t, w.node) # {}
                      THEN [t |-> [t EXCEPT ![w.node].value = None], res |-> Ok]
                      ELSE IF w.ptr = None THEN [t |-> t, res |-> Ok]
                      ELSE [t |-> unlink(t, w.ptr[1], ub), res |-> Ok]

\* ------------------------------------------------------------------ state
EmptyTrie == [q \in {} |-> None]

\* the threads that share the concurrent Trie, and the keys they use
Threads == {"t1", "t2", "t3"}
ConcKeys == {<<>>, <<"a">>, <<"a", "a">>}

\* a thread that is in no call of the Trie and holds no view; `view` is what
\* the view of a get shows, `res` what an insert or a remove returns
Idle == [pc |-> "idle", op |-> "none", key |-> <<>>, view |-> None,
         res |-> "none"]

Init ==
    /\ variant \in {"single", "concurrent"}
    /\ top_level_nodes = EmptyTrie
    /\ last = [op |-> "new", key |-> <<>>, value |-> None, res |-> Ok]
    /\ phase = "insert"
    /\ pending = {}
    /\ twin = [top_level_nodes |-> EmptyTrie, res |-> Ok]
    /\ lock = [readers |-> {}, writers |-> {}, queue |-> <<>>]
    /\ threads = [th \in Threads |-> Idle]
    /\ committed = EmptyTrie
    /\ stable = [k \in ConcKeys |-> None]

\* a call of Trie::get
GetOp(key) ==
    /\ last' = [op |-> "get", key |-> key, value |-> None,
                res |-> get(top_level_nodes, key)]
    /\ UNCHANGED <<variant, top_level_nodes>>

\* a call of Trie::insert
InsertOp(key, value, grow) ==
    LET r == insert(top_level_nodes, key, value, grow)
    IN  /\ Cardinality(DOMAIN r.t) <= MaxNodes
        /\ top_level_nodes' = r.t
        /\ last' = [op |-> "insert", key |-> key, value |-> Some(value),
                    res |-> r.res]
        /\ UNCHANGED variant

\* the outcomes a removal of `key` can have in the current trie: a dangling
\* pointer is only met in a node on the path of the key
Outcomes(key) ==
    IF \E q \in DOMAIN top_level_nodes :
           IsPrefix(q, key) /\ IsDangling(top_level_nodes, q)
    THEN UBOutcomes ELSE {NoUB}

\* T is a type parameter: the tries move, drop and lend values and never
\* inspect them, and the values of two keys never meet.  A key is therefore
\* inserted with a value of its own, which differs between a key and its
\* one-character extensions; an insert on a key that holds a value offers
\* either value.
ValueOf(key) == IF Len(key) % 2 = 1 THEN 1 ELSE 2

Offered(key) ==
    IF get(top_level_nodes, key) = None THEN {ValueOf(key)} ELSE Values

\* whether the table of a map may be reallocated by insert(key, _): the first
\* node the insert creates joins a map that has entries
Grows(key) ==
    IF \E i \in 1..Len(key) :
           /\ SubSeq(key, 1, i) \notin DOMAIN top_level_nodes
           /\ Siblings(top_level_nodes, SubSeq(key, 1, i)) # {}
    THEN BOOLEAN ELSE {FALSE}

Removed(r, key) ==
    /\ top_level_nodes' = r.t
    /\ last' = [op |-> "remove", key |-> key, value |-> None, res |-> r.res]
    /\ UNCHANGED variant

\* a call of Trie::remove of single_threaded_trie.rs
RemoveSingleOp(key, ub) ==
    /\ variant = "single"
    /\ Removed(remove(top_level_nodes, key, ub), key)

\* a call of Trie::remove of concurrent_trie.rs
RemoveConcurrentOp(key, ub) ==
    /\ variant = "concurrent"
    /\ Removed(remove_concurrent(top_level_nodes, key, ub), key)

\* ---- Spec: any sequence of calls, with any keys
Get(key) == GetOp(key) /\ UNCHANGED <<phase, pending, twin, conc_vars>>

Insert(key, value, grow) == InsertOp(key, value, grow) /\ UNCHANGED <<phase, pending, twin, conc_vars>>

RemoveSingle(key, ub) == RemoveSingleOp(key, ub) /\ UNCHANGED <<phase, pending, twin, conc_vars>>

RemoveConcurrent(key, ub) == RemoveConcurrentOp(key, ub) /\ UNCHANGED <<phase, pending, twin, conc_vars>>

Next ==
    \/ \E key \in Keys : Get(key)
    \/ \E key \in Keys : \E value \in Offered(key), grow \in Grows(key) :
           Insert(key, value, grow)
    \/ \E key \in Keys : \E ub \in Outcomes(key) : RemoveSingle(key, ub)
    \/ \E key \in Keys : \E ub \in Outcomes(key) : RemoveConcurrent(key, ub)

Spec == Init /\ [][Next]_vars

\* ---- SpecPrune: distinct keys are inserted into the empty trie, then each
\* is removed, in any order
PruneInsert(key, value, grow) ==
    /\ phase = "insert"
    /\ key \in Paths \ pending
    /\ InsertOp(key, value, grow)
    /\ pending' = IF last'.res = Ok THEN pending \cup {key} ELSE pending
    /\ UNCHANGED <<phase, twin, conc_vars>>

PruneRemoved(key) ==
    /\ phase' = "remove"
    /\ pending' = IF last'.res = Ok THEN pending \ {key} ELSE pending
    /\ UNCHANGED <<twin, conc_vars>>

PruneRemoveSingle(key, ub) ==
    /\ key \in pending
    /\ RemoveSingleOp(key, ub)
    /\ PruneRemoved(key)

PruneRemoveConcurrent(key, ub) ==
    /\ key \in pending
    /\ RemoveConcurrentOp(key, ub)
    /\ PruneRemoved(key)

NextPrune ==
    \/ \E key \in Paths : \E value \in Offered(key), grow \in Grows(key) :
           PruneInsert(key, value, grow)
    \/ \E key \in Paths : \E ub \in Outcomes(key) : PruneRemoveSingle(key, ub)
    \/ \E key \in Paths : \E ub \in Outcomes(key) : PruneRemoveConcurrent(key, ub)

SpecPrune == Init /\ [][NextPrune]_vars

\* ---- SpecPair: one sequence of calls is applied to a single-threaded Trie
\* (top_level_nodes, last) and, call by call, to a concurrent Trie (twin);
\* the tables of the two tries reallocate independently.  The comparison ends
\* with the first call after which the two differ.
InitPair == Init /\ variant = "single"

\* same results, same node set, same values
Agree ==
    /\ twin.res = last.res
    /\ DOMAIN twin.top_level_nodes = DOMAIN top_level_nodes
    /\ \A q \in DOMAIN top_level_nodes :
           twin.top_level_nodes[q].value = top_level_nodes[q].value

TwinGrows(key) ==
    IF \E i \in 1..Len(key) :
           /\ SubSeq(key, 1, i) \notin DOMAIN twin.top_level_nodes
           /\ Siblings(twin.top_level_nodes, SubSeq(key, 1, i)) # {}
    THEN BOOLEAN ELSE {FALSE}

TwinOutcomes(key) ==
    IF \E q \in DOMAIN twin.top_level_nodes :
           IsPrefix(q, key) /\ IsDangling(twin.top_level_nodes, q)
    THEN UBOutcomes ELSE {NoUB}

PairGet(key) ==
    /\ Agree
    /\ GetOp(key)
    /\ twin' = [twin EXCEPT !.res = get(twin.top_level_nodes, key)]
    /\ UNCHANGED <<phase, pending, conc_vars>>

PairInsert(key, value, grow, twin_grow) ==
    LET r == insert(twin.top_level_nodes, key, value, twin_grow)
    IN  /\ Agree
        /\ InsertOp(key, value, grow)
        /\ Cardinality(DOMAIN r.t) <= MaxNodes
        /\ twin' = [top_level_nodes |-> r.t, res |-> r.res]
        /\ UNCHANGED <<phase, pending, conc_vars>>

PairRemove(key, ub, twin_ub) ==
    LET r == remove_concurrent(twin.top_level_nodes, key, twin_ub)
    IN  /\ Agree
        /\ RemoveSingleOp(key, ub)
        /\ twin' = [top_level_nodes |-> r.t, res |-> r.res]
        /\ UNCHANGED <<phase, pending, conc_vars>>

NextPair ==
    \/ \E key \in Keys : PairGet(key)
    \/ \E key \in Keys :
           \E value \in Offered(key), grow \in Grows(key),
              twin_grow \in TwinGrows(key) :
               PairInsert(key, value, grow, twin_grow)
    \/ \E key \in Keys :
           \E ub \in Outcomes(key), twin_ub \in TwinOutcomes(key) :
               PairRemove(key, ub, twin_ub)

SpecPair == InitPair /\ [][NextPair]_vars

\* ---- SpecConc: threads call get, insert and remove on one concurrent Trie.
\* The RwLock is parking_lot's: any number of readers or one writer, and
\* waiting threads are served in the order of their arrival (a
\* reader that arrives behind a waiting writer waits).  A thread makes one
\* call at a time and holds at most one view.
InitConc == Init /\ variant = "concurrent"

seq_vars == <<variant, last, phase, pending, twin>>

Dequeue(th) == SelectSeq(lock.queue, LAMBDA x : x # th)

\* RwLock::read returns: no writer holds the lock and none waits ahead
CanRead(th) ==
    /\ lock.queue # <<>> /\ Head(lock.queue) = th
    /\ lock.writers = {}

\* RwLock::write granted although read guards are alive
CanWrite_among_readers(th) ==
    /\ lock.queue # <<>> /\ Head(lock.queue) = th
    /\ lock.writers = {}

\* RwLock::write returns: nobody holds the lock
CanWrite(th) ==
    /\ lock.queue # <<>> /\ Head(lock.queue) = th
    /\ lock.writers = {}
    /\ lock.readers = {}

\* Trie::get is called and waits in RwLock::read (line 32)
CallGet(th, key) ==
    /\ threads[th].pc = "idle"
    /\ threads' = [threads EXCEPT ![th] =
                       [Idle EXCEPT !.pc = "read_wait", !.op = "get", !.key = key]]
    /\ lock' = [lock EXCEPT !.queue = Append(@, th)]
    /\ UNCHANGED <<top_level_nodes, committed, stable, seq_vars>>

\* line 32: the read guard is handed out
ReadAcquire(th) ==
    /\ threads[th].pc = "read_wait"
    /\ CanRead(th)
    /\ lock' = [lock EXCEPT !.readers = @ \cup {th}, !.queue = Dequeue(th)]
    /\ threads' = [threads EXCEPT ![th].pc = "read_locked"]
    /\ UNCHANGED <<top_level_nodes, committed, stable, seq_vars>>

\* lines 34-47: the closure of RwLockReadGuard::map walks the trie; get
\* returns the view, which keeps the read guard
ReadWalk(th) ==
    /\ threads[th].pc = "read_locked"
    /\ threads' = [threads EXCEPT ![th].pc = "view",
                                  ![th].view = get(top_level_nodes, threads[th].key)]
    /\ UNCHANGED <<top_level_nodes, lock, committed, stable, seq_vars>>

\* the caller drops the view, and with it the read guard
DropView(th) ==
    /\ threads[th].pc = "view"
    /\ lock' = [lock EXCEPT !.readers = @ \ {th}]
    /\ threads' = [threads EXCEPT ![th] = Idle]
    /\ UNCHANGED <<top_level_nodes, committed, stable, seq_vars>>

\* Trie::insert or Trie::remove is called and waits in RwLock::write (lines
\* 51, 69), before it looks at the key
CallWrite(th, op, key) ==
    /\ threads[th].pc = "idle"
    /\ threads' = [threads EXCEPT ![th] =
                       [Idle EXCEPT !.pc = "write_wait", !.op = op, !.key = key]]
    /\ lock' = [lock EXCEPT !.queue = Append(@, th)]
    /\ stable' = IF op = "remove" THEN [stable EXCEPT ![key] = None] ELSE stable
    /\ UNCHANGED <<top_level_nodes, committed, seq_vars>>

\* lines 51, 69: the write guard is handed out
WriteAcquire(th) ==
    /\ threads[th].pc = "write_wait"
    /\ CanWrite(th)
    /\ lock' = [lock EXCEPT !.writers = @ \cup {th}, !.queue = Dequeue(th)]
    /\ threads' = [threads EXCEPT ![th].pc = "write_locked"]
    /\ UNCHANGED <<top_level_nodes, committed, stable, seq_vars>>

\* Trie::insert up to the test of TrieNode::insert for a duplicate (lines
\* 52-64, 176-186): the key is tested and the nodes of the path are created;
\* the value is not yet stored
InsertNodes(th, grow) ==
    LET key == threads[th].key
        r == insert(top_level_nodes, key, ValueOf(key), grow)
    IN  /\ threads[th].pc = "write_locked"
        /\ threads[th].op = "insert"
        /\ Cardinality(DOMAIN r.t) <= MaxNodes
        /\ IF r.res = Ok
           THEN /\ top_level_nodes' = [r.t EXCEPT ![key].value = None]
                /\ threads' = [threads EXCEPT ![th].pc = "write_value"]
           ELSE /\ top_level_nodes' = r.t
                /\ threads' = [threads EXCEPT ![th].pc = "write_done",
                                              ![th].res = r.res]
        /\ UNCHANGED <<lock, committed, stable, seq_vars>>

\* TrieNode::insert, lines 187-189: no duplicate, the value is stored
InsertValue(th) ==
    LET key == threads[th].key
    IN  /\ threads[th].pc = "write_value"
        /\ top_level_nodes' =
               [top_level_nodes EXCEPT ![key].value = Some(ValueOf(key))]
        /\ threads' = [threads EXCEPT ![th].pc = "write_done", ![th].res = Ok]
        /\ UNCHANGED <<lock, committed, stable, seq_vars>>

\* Trie::remove, lines 73-132
RemoveBody(th, ub) ==
    LET r == remove_concurrent(top_level_nodes, threads[th].key, ub)
    IN  /\ threads[th].pc = "write_locked"
        /\ threads[th].op = "remove"
        /\ top_level_nodes' = r.t
        /\ threads' = [threads EXCEPT ![th].pc = "write_done", ![th].res = r.res]
        /\ UNCHANGED <<lock, committed, stable, seq_vars>>

\* whether another thread has called remove(key) and not returned
RemovePending(th, key) ==
    \E o \in Threads \ {th} :
        threads[o].op = "remove" /\ threads[o].key = key

\* what a return of insert or remove does to the bookkeeping
Returned(th) ==
    LET key == threads[th].key
    IN  /\ threads[th].pc = "write_done"
        /\ threads' = [threads EXCEPT ![th] = Idle]
        /\ committed' = top_level_nodes
        /\ stable' = IF /\ threads[th].op = "insert"
                        /\ threads[th].res = Ok
                        /\ ~RemovePending(th, key)
                     THEN [stable EXCEPT ![key] = Some(ValueOf(key))]
                     ELSE stable
        /\ UNCHANGED <<top_level_nodes, seq_vars>>

\* insert or remove returns and the write guard stays locked when the result
\* is an error
WriteReturn_error_keeps_lock(th) ==
    /\ Returned(th)
    /\ lock' = IF threads[th].res = Ok
               THEN [lock EXCEPT !.writers = @ \ {th}] ELSE lock

\* insert or remove returns, with Ok or an error: the write guard, a
\* temporary of the first statement, is dropped at the end of the function
WriteReturn(th) ==
    /\ Returned(th)
    /\ lock' = [lock EXCEPT !.writers = @ \ {th}]

\* the steps a thread takes once it has made a call
Progress(th) ==
    \/ ReadAcquire(th)
    \/ ReadWalk(th)
    \/ DropView(th)
    \/ WriteAcquire(th)
    \/ \E grow \in Grows(threads[th].key) : InsertNodes(th, grow)
    \/ InsertValue(th)
    \/ \E ub \in Outcomes(threads[th].key) : RemoveBody(th, ub)
    \/ WriteReturn(th)

NextConc ==
    \/ \E th \in Threads, key \in ConcKeys : CallGet(th, key)
    \/ \E th \in Threads, key \in ConcKeys : CallWrite(th, "insert", key)
    \/ \E th \in Threads, key \in ConcKeys : CallWrite(th, "remove", key)
    \/ \E th \in Threads : Progress(th)

SpecConc == InitConc /\ [][NextConc]_vars

\* ---- SpecConcFair: SpecConc where a thread that can take a step of its call
\* takes it, and a view is dropped
SpecConcFair == SpecConc /\ \A th \in Threads : WF_vars(Progress(th))

\* ----------------------------------------------------------------- claims
StoredKeys(t) == {k \in Paths : get(t, k) # None}

SuccessfulRemove == last'.op = "remove" /\ last'.res = Ok

\* C1: in both variants, once insert(k, v) has returned Ok, get(k) yields v
\* after every further call, up to the next remove(k) that returns Ok: the
\* insert establishes the value, and no call other than a successful
\* remove(k) changes it.
C1_InsertedValueStays ==
    [][/\ (last'.op = "insert" /\ last'.res = Ok)
            => get(top_level_nodes', last'.key) = last'.value
       /\ \A k \in StoredKeys(top_level_nodes) :
            ~(SuccessfulRemove /\ last'.key = k)
                => get(top_level_nodes', k) = get(top_level_nodes, k)]_vars

\* C2: in the concurrent variant a remove(k) that returns Ok makes get(k)
\* absent and leaves get(k2) unchanged for every other key k2.
C2_ConcurrentRemoveFrame ==
    [][(variant = "concurrent" /\ SuccessfulRemove)
            => /\ get(top_level_nodes', last'.key) = None
               /\ \A k2 \in Paths \ {last'.key} :
                      get(top_level_nodes', k2) = get(top_level_nodes, k2)]_vars

\* C3: in the single-threaded variant a remove(k) that returns Ok makes get(k)
\* absent and leaves get(k2) unchanged for every other key k2, a prefix of k,
\* an extension of k or a sibling.
C3_SingleRemoveFrame ==
    [][(variant = "single" /\ SuccessfulRemove)
            => /\ get(top_level_nodes', last'.key) = None
               /\ \A k2 \in Paths \ {last'.key} :
                      get(top_level_nodes', k2) = get(top_level_nodes, k2)]_vars

\* C4: insert never overwrites: in both variants insert(k, v2) on a trie where
\* k has a value v1 returns the duplicate-key error and leaves the whole trie,
\* and so get(k) = v1, as it was; no node is created.
C4_DuplicateInsertRejected ==
    [][(last'.op = "insert" /\ last'.key \in StoredKeys(top_level_nodes))
            => /\ last'.res = DuplicateKey
               /\ top_level_nodes' = top_level_nodes
               /\ get(top_level_nodes', last'.key) = get(top_level_nodes, last'.key)]_vars

\* a duplicate insert with another value than the stored one was rejected
C4_Witness ==
    /\ last.op = "insert"
    /\ last.res = DuplicateKey
    /\ get(top_level_nodes, last.key) # None
    /\ get(top_level_nodes, last.key) # last.value

\* C5: in both variants remove(k) of a non-empty key k without a stored value
\* (a character of k has no matching child, or the path of k exists as a
\* non-terminal prefix only) returns the not-found error and leaves the trie,
\* and so every get, as it was.
C5_RemoveAbsentNotFound ==
    [][(last'.op = "remove" /\ last'.key # <<>>
            /\ get(top_level_nodes, last'.key) = None)
            => /\ last'.res = NotFound
               /\ top_level_nodes' = top_level_nodes
               /\ \A k2 \in Keys :
                      get(top_level_nodes', k2) = get(top_level_nodes, k2)]_vars

\* a remove of a key whose path exists as a non-terminal prefix returned the
\* not-found error
C5_Witness ==
    /\ last.op = "remove"
    /\ last.res = NotFound
    /\ last.key \in DOMAIN top_level_nodes
    /\ ~is_end(top_level_nodes[last.key])
    /\ child_nodes(top_level_nodes, last.key) # {}

\* C6: in both variants insert("", v) and remove("") return the empty-key
\* error in every state and leave the trie as it was.
C6_EmptyKeyRejected ==
    [][(last'.op \in {"insert", "remove"} /\ last'.key = <<>>)
            => /\ last'.res = EmptyKey
               /\ top_level_nodes' = top_level_nodes]_vars

\* an operation on the empty key was rejected on a non-empty trie
C6_Witness ==
    /\ last.op \in {"insert", "remove"}
    /\ last.key = <<>>
    /\ last.res = EmptyKey
    /\ top_level_nodes # EmptyTrie

\* C7: no dead node persists: in every reachable state of both variants every
\* node holds a value or has a child; the nodes are exactly the non-empty
\* prefixes of the stored keys.
C7_NoDeadNode ==
    /\ \A q \in DOMAIN top_level_nodes :
           is_end(top_level_nodes[q]) \/ child_nodes(top_level_nodes, q) # {}
    /\ DOMAIN top_level_nodes =
           {q \in Paths : \E k \in StoredKeys(top_level_nodes) : IsPrefix(q, k)}

\* C8: parent consistency: in every reachable state the parent_node_ptr of a
\* node stored as child of P is the address P has now, and that of a
\* top-level node is null.
C8_ParentConsistent ==
    \A q \in DOMAIN top_level_nodes :
        top_level_nodes[q].parent_node_ptr =
            IF Len(q) = 1 THEN NULL ELSE Address(Parent(q))

\* C9: full pruning (SpecPrune): once every key inserted into the empty trie
\* has been removed with Ok, in any order, no node remains.
C9_FullPruning ==
    pending = {} => top_level_nodes = EmptyTrie

\* what the walk of get is to return
Lookup(t, key) ==
    IF key = <<>> THEN None
    ELSE IF \E i \in 1..Len(key) : SubSeq(key, 1, i) \notin DOMAIN t THEN None
    ELSE IF ~is_end(t[key]) THEN None
    ELSE t[key].value

\* C10: get never errors and never changes the trie; it returns absent when a
\* character has no matching child, when the walk ends on a non-terminal node
\* and for the empty key, and otherwise the value stored at the node of the
\* full key.
C10_GetResult ==
    [][last'.op = "get"
            => /\ top_level_nodes' = top_level_nodes
               /\ last'.res \in {None} \cup {Some(v) : v \in Values}
               /\ last'.res = Lookup(top_level_nodes, last'.key)]_vars

\* a get of a key cut short by a missing child, below a node that has a value
C10_Witness ==
    /\ last.op = "get"
    /\ last.res = None
    /\ last.key \notin DOMAIN top_level_nodes
    /\ Len(last.key) > 1
    /\ Parent(last.key) \in StoredKeys(top_level_nodes)

\* the removal of last'.key found a terminal node without children (rule 2)
LeafRemoved ==
    /\ SuccessfulRemove
    /\ last'.key \in DOMAIN top_level_nodes
    /\ is_end(top_level_nodes[last'.key])
    /\ child_nodes(top_level_nodes, last'.key) = {}

\* C14: key lifecycle, in both variants: after a remove(k) that returns Ok,
\* get(k) is absent and a second remove(k) returns the not-found error; an
\* insert(k, v2) on a key without a value returns Ok and get(k) yields v2,
\* whether the node of k exists or not.
C14_KeyLifecycle ==
    [][/\ SuccessfulRemove => get(top_level_nodes', last'.key) = None
       /\ (last.op = "remove" /\ last.res = Ok
              /\ last'.op = "remove" /\ last'.key = last.key)
            => last'.res = NotFound
       /\ (last'.op = "insert" /\ last'.key # <<>>
              /\ get(top_level_nodes, last'.key) = None)
            => /\ last'.res = Ok
               /\ get(top_level_nodes', last'.key) = last'.value]_vars

\* the node of k and the maximal run of its ancestors that hold no value and
\* have no child but the one on the path of k
PrunedRun(t, k) ==
    {q \in DOMAIN t :
        /\ IsPrefix(q, k)
        /\ \A r \in DOMAIN t :
              (IsPrefix(q, r) /\ IsPrefix(r, k) /\ r # k)
                  => ~is_end(t[r]) /\ Cardinality(child_nodes(t, r)) = 1}

\* C15: maximal pruning, in both variants: when the terminal node of k has no
\* children, remove(k) destroys exactly that node and the maximal run of its
\* ancestors that hold no value and have no other child, and leaves every
\* other node as it was.
C15_MaximalPruning ==
    [][LeafRemoved
            => /\ DOMAIN top_level_nodes \ DOMAIN top_level_nodes'
                      = PrunedRun(top_level_nodes, last'.key)
               /\ \A q \in DOMAIN top_level_nodes' :
                      /\ q \in DOMAIN top_level_nodes
                      /\ top_level_nodes'[q] = top_level_nodes[q]]_vars

\* C16: rule 1, in both variants: when the terminal node of k holds a value
\* and has a child, remove(k) returns Ok and only clears the value of that
\* node; node set, child maps, parent references and the other values stay.
C16_ValueOnlyCleared ==
    [][(/\ last'.op = "remove"
        /\ last'.key \in DOMAIN top_level_nodes
        /\ is_end(top_level_nodes[last'.key])
        /\ child_nodes(top_level_nodes, last'.key) # {})
            => /\ last'.res = Ok
               /\ top_level_nodes' =
                      [top_level_nodes EXCEPT ![last'.key].value = None]]_vars

\* a remove returned Ok and the node of its key is still there, without a
\* value, above its children
C16_Witness ==
    /\ last.op = "remove"
    /\ last.res = Ok
    /\ last.key \in DOMAIN top_level_nodes
    /\ ~is_end(top_level_nodes[last.key])
    /\ child_nodes(top_level_nodes, last.key) # {}

\* C17: the upward walk of the single-threaded remove of a key of n characters
\* takes at most n - 1 steps; every pointer it dereferences, in the loop and
\* in the final block, is non-null and is the address of the node that holds
\* the child visited before; the pointer is null at the end only when the
\* walk has passed the top-level node, and the key left is then the first
\* character of k.
C17_UpwardWalkSafe ==
    [][(variant = "single" /\ LeafRemoved)
            => \A ub \in Outcomes(last'.key) :
                 LET t == top_level_nodes
                     k == last'.key
                     n == Len(k)
                     start == <<t[k].parent_node_ptr, k[n]>>
                     rest == Tail(Reverse(k))
                     derefs == walk_derefs(t, start, rest, ub)
                     found == walk_up(t, start, rest, ub)
                 IN  /\ Len(derefs) <= n - 1
                     /\ \A i \in 1..Len(derefs) :
                            /\ derefs[i] # NULL
                            /\ derefs[i] = Address(SubSeq(k, 1, n - i))
                     /\ found[1] = NULL => found[2] = k[1]
                     /\ found[1] # NULL => IsLive(t, found[1])]_vars

\* the entry the concurrent remove is to unlink: the child entry, on the path
\* of k, of the deepest proper ancestor that holds a value or has more than
\* one child (<<path of that ancestor, key>>), or the top-level entry
PrunePoint(t, k) ==
    LET keepers == {i \in 1..(Len(k) - 1) :
                        \/ is_end(t[SubSeq(k, 1, i)])
                        \/ Cardinality(child_nodes(t, SubSeq(k, 1, i))) > 1}
    IN  IF keepers = {} THEN <<<<>>, k[1]>>
        ELSE LET i == CHOOSE j \in keepers : \A m \in keepers : m <= j
             IN  <<SubSeq(k, 1, i), k[i + 1]>>

\* C19: in the concurrent remove, when the terminal node holds a value and has
\* no children, parent_node_ptr_and_key is Some after the downward walk, so
\* the removal never returns Ok with the value of k still stored; and the
\* tracked entry is the child entry of the deepest ancestor on the path that
\* holds a value or has more than one child, or the top-level entry if there
\* is none.
C19_TrackedPrunePoint ==
    [][(variant = "concurrent" /\ LeafRemoved)
            => LET t == top_level_nodes
                   k == last'.key
                   w == walk_down(t, <<k[1]>>, Tail(k),
                                  Some(<<t[<<k[1]>>].parent_node_ptr, k[1]>>))
                   tracked == w.ptr[1]
                   owner == IF tracked[1] = NULL THEN <<>> ELSE tracked[1][1]
               IN  /\ w.ptr # None
                   /\ get(top_level_nodes', k) = None
                   /\ <<owner, tracked[2]>> = PrunePoint(t, k)]_vars

\* C13: the two variants are the same algorithm: given the same sequence of
\* calls from the empty trie, every call returns the same outcome in both
\* and after every call the two tries have the same nodes with the same
\* values.
C13_VariantsAgree == Agree

\* the thread holds a read guard: get is walking or its view is alive
InRead(th) == threads[th].pc \in {"read_locked", "view"}

\* the thread is inside insert or remove, past RwLock::write
InWrite(th) == threads[th].pc \in {"write_locked", "write_value", "write_done"}

\* C11: reader/writer exclusion in the concurrent variant: get holds the lock
\* in shared mode from its start until its view is dropped, insert and remove
\* hold it in exclusive mode from their first step to their return; no thread
\* is inside insert or remove while another thread is inside insert or remove
\* or holds a read guard, and the trie differs from what the last whole
\* insert/remove left only while a thread is inside insert or remove.
C11_ReaderWriterExclusion ==
    /\ \A th \in Threads :
          /\ InRead(th) <=> th \in lock.readers
          /\ InWrite(th) <=> th \in lock.writers
          /\ InWrite(th) => \A o \in Threads \ {th} : ~InWrite(o) /\ ~InRead(o)
    /\ top_level_nodes # committed => \E th \in Threads : InWrite(th)

\* two views are alive at the same time while a third thread waits to write
C11_Witness ==
    \E r1, r2, w \in Threads :
        /\ r1 # r2
        /\ threads[r1].pc = "view" /\ threads[r2].pc = "view"
        /\ threads[w].pc = "write_wait"

\* C12: no torn reads in the concurrent variant: while a view of key k is
\* alive it shows the value k has in the trie as the last whole insert/remove
\* left it, never one of a trie in which an insert or a remove is under way;
\* and the view of a key that holds a stored value no remove has touched
\* shows that value.
C12_NoTornRead ==
    \A th \in Threads :
        threads[th].pc = "view"
            => /\ threads[th].view = get(committed, threads[th].key)
               /\ stable[threads[th].key] # None
                      => threads[th].view = stable[threads[th].key]

\* C18: progress in the concurrent variant, under fair scheduling and with
\* every view dropped: every get hands out its view and every insert and
\* remove returns, whatever result it returns; a thread that has returned
\* from insert or remove holds no lock.
C18_Progress ==
    /\ \A th \in Threads :
          /\ (threads[th].pc = "read_wait") ~> (threads[th].pc = "view")
          /\ (threads[th].pc = "write_wait") ~> (threads[th].pc = "idle")
    /\ [](\A th \in Threads :
              threads[th].pc = "idle" => th \notin lock.writers \cup lock.readers)

\* a thread waits in RwLock::write while a view is alive and another writer
\* waits behind it
C18_Witness ==
    \E r, w1, w2 \in Threads :
        /\ threads[r].pc = "view"
        /\ threads[w1].pc = "write_wait"
        /\ threads[w2].pc = "write_wait"
        /\ w1 # w2

====
